---- MODULE Spec2Model ----
(***************************************************************************)
(* go-ddns: the update loop of src/main.go (the per-cycle implementation,  *)
(* lines 236-398) and the GoDaddy record client of src/unnamed/part_001.   *)
(*                                                                         *)
(* Two processes: main (spawns the loop goroutine, waits for a signal,     *)
(* cancels the context, waits on the WaitGroup, exits) and the goroutine   *)
(* runUpdateLoop.  Every HTTP call is split into the step that issues it   *)
(* and the step in which it returns, so that main's cancel() can fall      *)
(* between the two.  The answers of the two remote services are inputs.    *)
(***************************************************************************)
EXTENDS Integers, Sequences, FiniteSets, TLC

\* ------------------------------------------------------------------ bounds
MaxCycles == 2      \* cycles of loopFunc the model follows
MaxBodyLen == 2     \* characters in a body of the IP-echo service
MaxRecords == 1     \* elements in a record array answered by the provider
MaxDomains == 2     \* configured domains

\* -------------------------------------------------------- program constants
StatusOK == 200     \* http.StatusOK

\* ------------------------------------------------------------------ inputs
\* Characters of an IP-echo body: an address character and the newline.
Chars == {"1", "\n"}

\* The address strings the provider may hold as a record's data.
DataValues == {<<"1">>, <<"1", "1">>}

\* HTTP statuses the services answer with.
Statuses == {StatusOK, 404}

SeqsUpTo(S, n) == UNION {[1..k -> S] : k \in 0..n}

\* strings.Split(s, sep) for a one-character separator: the pieces between
\* the separators, so that a string without separator, the empty string
\* included, gives one piece.
RECURSIVE Split(_, _)
Split(s, sep) ==
    IF \A i \in 1..Len(s) : s[i] # sep THEN <<s>>
    ELSE LET i == CHOOSE j \in 1..Len(s) :
                    s[j] = sep /\ \A k \in 1..(j - 1) : s[k] # sep
         IN <<SubSeq(s, 1, i - 1)>> \o Split(SubSeq(s, i + 1, Len(s)), sep)

\* The values of GD_DOMAINS: unset (the empty string), or domain names with
\* commas between them.  A name is one element of the string here.
DomainNames == <<"a.com", "b.com", "c.com", "d.com">>
RECURSIVE JoinComma(_)
JoinComma(names) ==
    IF Len(names) = 0 THEN <<>>
    ELSE IF Len(names) = 1 THEN <<names[1]>>
    ELSE <<names[1], ",">> \o JoinComma(Tail(names))
GDDomainsValues ==
    {<<>>} \cup {JoinComma(SubSeq(DomainNames, 1, n)) : n \in 1..MaxDomains}

\* The environment of the process.
EnvValues ==
    [GD_API_KEY : {"", "key"}, GD_API_SECRET : {"", "secret"},
     GD_DOMAINS : GDDomainsValues]

\* The configured domain lists (GD_DOMAINS split at the commas).
DomainLists == {Split(e, ",") : e \in GDDomainsValues}

\* A provider body: a JSON array of records, JSON null, another JSON value
\* (the provider's error object), or text that is no JSON at all.
NoBody == [json |-> "none", items |-> <<>>]
Bodies ==
    {[json |-> "array", items |-> s] : s \in SeqsUpTo(DataValues, MaxRecords)}
    \cup {[json |-> k, items |-> <<>>] : k \in {"null", "object", "malformed"}}

\* What httpClient.Do hands back: a transport error (err != nil), or a
\* response with a status and a body whose read may fail half way.
\* "canceled" is the transport error of a cancelled request context.
NoResponse == [kind |-> "none", status |-> 0, body |-> NoBody, bodyOk |-> FALSE]
TransportError(k) == [kind |-> k, status |-> 0, body |-> NoBody, bodyOk |-> FALSE]
ProviderResponses ==
    [kind : {"response"}, status : Statuses, body : Bodies, bodyOk : BOOLEAN]

\* The outcomes of a provider request issued with context ctx: a request
\* issued after cancel() fails in the transport before it is sent; one in
\* flight when cancel() arrives is aborted unless the answer was already in.
DoOutcomes(issuedCancelled, cancelledNow) ==
    IF issuedCancelled THEN {TransportError("canceled")}
    ELSE {TransportError("transport")} \cup ProviderResponses
         \cup (IF cancelledNow THEN {TransportError("canceled")} ELSE {})

\* The answers of the IP-echo service (httpClient.Get, no context).
NoEcho == [kind |-> "none", status |-> 0, body |-> <<>>, bodyOk |-> FALSE]
EchoResponses ==
    {[kind |-> "transport", status |-> 0, body |-> <<>>, bodyOk |-> FALSE]}
    \cup [kind : {"response"}, status : Statuses,
          body : SeqsUpTo(Chars, MaxBodyLen), bodyOk : BOOLEAN]

\* ------------------------------------------------------------------ errors
Nil == [kind |-> "nil", code |-> 0, body |-> NoBody, domain |-> ""]
Err(k, code, body) == [kind |-> k, code |-> code, body |-> body, domain |-> ""]

\* ---------------------------------------------------------- pure functions
\* strings.TrimRight(s, cutset) for a one-character cutset.
RECURSIVE TrimRight(_, _)
TrimRight(s, c) ==
    IF Len(s) > 0 /\ s[Len(s)] = c THEN TrimRight(SubSeq(s, 1, Len(s) - 1), c)
    ELSE s

\* getPublicIPAddress with the error of a failed request dropped.
getPublicIPAddressNoErr(answer) ==
    IF answer.kind # "response" \/ ~answer.bodyOk THEN [ip |-> <<>>, err |-> FALSE]
    ELSE [ip |-> TrimRight(answer.body, "\n"), err |-> FALSE]

\* getPublicIPAddress: the status of the answer is never looked at.
getPublicIPAddress(answer) ==
    IF answer.kind # "response" THEN [ip |-> <<>>, err |-> TRUE]
    ELSE IF ~answer.bodyOk THEN [ip |-> <<>>, err |-> TRUE]
    ELSE [ip |-> TrimRight(answer.body, "\n"), err |-> FALSE]

\* json.Unmarshal(httpResBytes, &res) into a slice of records: null leaves
\* the slice nil, a non-array value and non-JSON text are errors.
Unmarshal(body) ==
    CASE body.json = "array" -> [ok |-> TRUE, res |-> body.items]
      [] body.json = "null" -> [ok |-> TRUE, res |-> <<>>]
      [] OTHER -> [ok |-> FALSE, res |-> <<>>]

\* getDomainAtRecordIP on the outcome of its request.  res[0] of an empty
\* slice is an index-out-of-range panic.
getDomainAtRecordIP(httpRes) ==
    IF httpRes.kind # "response"
    THEN [val |-> <<>>, err |-> Err(httpRes.kind, 0, NoBody), panic |-> FALSE]
    ELSE IF ~httpRes.bodyOk
    THEN [val |-> <<>>, err |-> Err("readBody", 0, NoBody), panic |-> FALSE]
    ELSE IF httpRes.status # StatusOK
    THEN [val |-> <<>>, err |-> Err("status", httpRes.status, httpRes.body),
          panic |-> FALSE]
    ELSE IF ~Unmarshal(httpRes.body).ok
    THEN [val |-> <<>>, err |-> Err("json", 0, NoBody), panic |-> FALSE]
    ELSE IF Len(Unmarshal(httpRes.body).res) = 0
    THEN [val |-> <<>>, err |-> Nil, panic |-> TRUE]
    ELSE [val |-> Unmarshal(httpRes.body).res[1], err |-> Nil, panic |-> FALSE]

\* setDomainAtRecord with the status check left out.
setDomainAtRecordIgnoreStatus(res) == Nil

\* setDomainAtRecord on the outcome of its request: a transport error
\* returns nil (part_001 line 78).
setDomainAtRecord(res) ==
    IF res.kind # "response" THEN Nil
    ELSE IF res.status # StatusOK
    THEN IF ~res.bodyOk THEN Err("statusNoBody", res.status, NoBody)
         ELSE Err("status", res.status, res.body)
    ELSE Nil

\* The comparison with a constant outcome: never, and always, an update.
needsUpdateNever(godaddyIPAddr, currentIpAddr) == FALSE
needsUpdateAlways(godaddyIPAddr, currentIpAddr) == TRUE

\* The comparison of checkAndUpdate (main.go line 371), negated.
needsUpdate(godaddyIPAddr, currentIpAddr) == currentIpAddr # godaddyIPAddr

\* The error checkAndUpdate returns for a failed read (main.go line 369).
WrapReadError(e, domain) == [e EXCEPT !.domain = domain]

\* ------------------------------------------------------------------- state
VARIABLES
    env,            \* the environment variables of the process
    domains,        \* the configured domains
    mainPc,         \* "init", "fatal", "start", "sigwait", "cancel", "wgwait",
                    \* "exited"
    timer,          \* the select's time.After timer: "off", "armed", "fired"
    loopPc,         \* the goroutine's position
    wgCount,        \* the WaitGroup counter
    ctxDone,        \* whether cancel() was called
    cycle,          \* cycles of loopFunc begun
    resp,           \* getPublicIPAddress's resp: this cycle's echo answer
    resolveState,   \* this cycle: "pending", "ok", "failed"
    currIPAddr,     \* loopFunc's currIPAddr
    idx,            \* position of the range loop over domains
    readCount,      \* calls of getDomainAtRecordIP in this cycle
    issuedDone,     \* whether the request in flight was issued after cancel()
    httpRes,        \* getDomainAtRecordIP's httpRes of the current domain
    godaddyIPAddr,  \* checkAndUpdate's godaddyIPAddr
    writeCount,     \* calls of setDomainAtRecord for the current domain
    writeData,      \* the Data field of the write request's body
    res,            \* setDomainAtRecord's res of the current domain
    err,            \* what checkAndUpdate returned to the loop
    lastLog,        \* what the loop logged for the current domain
    \* The provider and the echo service, where they are followed
    \* (ProviderSpec); Spec leaves their answers open.
    record,         \* the provider's A record of each configured domain
    publicIP,       \* the host's public IP
    healthy,        \* both services answer every call with success
    readRecord,     \* the record of the domain read, as the read returned
    oobChanged,     \* domains whose record changed out of band since read
    readOob,        \* whether the record read had been changed out of band
    \* The caching implementation (CacheSpec).
    lastIPAddr,     \* the global lastIPAddr
    cachePc,        \* position in updateRecords
    retval,         \* getDNSEntriesIP's retval
    okWrites        \* writes answered 200 in this call of updateRecords

vars == <<env, timer, domains, mainPc, loopPc, wgCount, ctxDone, cycle, resp,
          resolveState, currIPAddr, idx, readCount, issuedDone, httpRes,
          godaddyIPAddr, writeCount, writeData, res, err, lastLog,
          record, publicIP, healthy, readRecord, oobChanged, readOob,
          lastIPAddr, cachePc, retval, okWrites>>

providerVars == <<record, publicIP, healthy, readRecord, oobChanged, readOob>>
cacheVars == <<lastIPAddr, cachePc, retval, okWrites>>
mainVars == <<mainPc, ctxDone>>
cycleVars == <<resp, resolveState, currIPAddr, readCount>>
checkVars == <<httpRes, godaddyIPAddr, writeCount, writeData, res, err, lastLog>>

\* The process runs: main has not returned and no goroutine has panicked.
Running == mainPc \notin {"exited", "fatal"} /\ loopPc # "crashed"

Init ==
    /\ env \in EnvValues
    /\ domains = <<>>
    /\ mainPc = "init"
    /\ timer = "off"
    /\ loopPc = "idle"
    /\ wgCount = 0
    /\ ctxDone = FALSE
    /\ cycle = 0
    /\ resp = NoEcho
    /\ resolveState = "pending"
    /\ currIPAddr = <<>>
    /\ idx = 0
    /\ readCount = 0
    /\ issuedDone = FALSE
    /\ httpRes = NoResponse
    /\ godaddyIPAddr = <<>>
    /\ writeCount = 0
    /\ writeData = <<>>
    /\ res = NoResponse
    /\ err = Nil
    /\ lastLog = "none"
    /\ record = <<>>
    /\ publicIP = <<>>
    /\ healthy = FALSE
    /\ readRecord = <<>>
    /\ oobChanged = {}
    /\ readOob = FALSE
    /\ lastIPAddr = <<>>
    /\ cachePc = "off"
    /\ retval = <<>>
    /\ okWrites = 0

\* -------------------------------------------------------------------- main
\* init: the environment is read; log.Fatalf ends the process.
initEnv ==
    /\ Running /\ mainPc = "init"
    /\ LET split == Split(env.GD_DOMAINS, ",") IN
        IF env.GD_API_KEY = "" \/ env.GD_API_SECRET = ""
        THEN /\ mainPc' = "fatal"
             /\ UNCHANGED domains
        ELSE /\ domains' = split
             /\ mainPc' = IF Len(split) < 1 THEN "fatal" ELSE "start"
    /\ UNCHANGED providerVars /\ UNCHANGED cacheVars
    /\ UNCHANGED <<env, timer, loopPc, wgCount, ctxDone, cycle, idx, issuedDone>>
    /\ UNCHANGED cycleVars /\ UNCHANGED checkVars

\* go runUpdateLoop(ctx, &wg); signal.Notify; main blocks on <-sigs.
MainGo ==
    /\ Running /\ mainPc = "start"
    /\ mainPc' = "sigwait"
    /\ loopPc' = "add"
    /\ UNCHANGED providerVars /\ UNCHANGED cacheVars
    /\ UNCHANGED <<env, timer, domains, wgCount, ctxDone, cycle, idx, issuedDone>>
    /\ UNCHANGED cycleVars /\ UNCHANGED checkVars

\* A shutdown signal arrives: <-sigs returns.
Signal ==
    /\ Running /\ mainPc = "sigwait"
    /\ mainPc' = "cancel"
    /\ UNCHANGED providerVars /\ UNCHANGED cacheVars
    /\ UNCHANGED <<env, timer, domains, loopPc, wgCount, ctxDone, cycle, idx, issuedDone>>
    /\ UNCHANGED cycleVars /\ UNCHANGED checkVars

\* cancel()
Cancel ==
    /\ Running /\ mainPc = "cancel"
    /\ ctxDone' = TRUE
    /\ mainPc' = "wgwait"
    /\ UNCHANGED providerVars /\ UNCHANGED cacheVars
    /\ UNCHANGED <<env, timer, domains, loopPc, wgCount, cycle, idx, issuedDone>>
    /\ UNCHANGED cycleVars /\ UNCHANGED checkVars

\* wg.Wait() returns when the counter is zero; main returns, the process ends.
WgWait ==
    /\ Running /\ mainPc = "wgwait"
    /\ wgCount = 0
    /\ mainPc' = "exited"
    /\ UNCHANGED providerVars /\ UNCHANGED cacheVars
    /\ UNCHANGED <<env, timer, domains, loopPc, wgCount, ctxDone, cycle, idx, issuedDone>>
    /\ UNCHANGED cycleVars /\ UNCHANGED checkVars

\* ----------------------------------------------------------- runUpdateLoop
\* runUpdateLoop going to the select without the first loopFunc().
WgAddThenSelect ==
    /\ Running /\ loopPc = "add"
    /\ wgCount' = wgCount + 1
    /\ loopPc' = "select"
    /\ timer' = "armed"
    /\ UNCHANGED providerVars /\ UNCHANGED cacheVars
    /\ UNCHANGED <<env, domains, cycle, idx, issuedDone>>
    /\ UNCHANGED mainVars /\ UNCHANGED cycleVars /\ UNCHANGED checkVars

\* wg.Add(1); defer wg.Done(); the first loopFunc() follows.
WgAdd ==
    /\ Running /\ loopPc = "add"
    /\ wgCount' = wgCount + 1
    /\ loopPc' = "resolve"
    /\ UNCHANGED providerVars /\ UNCHANGED cacheVars
    /\ UNCHANGED <<env, timer, domains, cycle, idx, issuedDone>>
    /\ UNCHANGED mainVars /\ UNCHANGED cycleVars /\ UNCHANGED checkVars

\* loopFunc begins: httpClient.Get("http://ifconfig.co") is issued.
ResolveCall ==
    /\ Running /\ loopPc = "resolve"
    /\ cycle' = cycle + 1
    /\ loopPc' = "resolveWait"
    /\ resp' = NoEcho
    /\ resolveState' = "pending"
    /\ currIPAddr' = <<>>
    /\ readCount' = 0
    /\ idx' = 0
    /\ httpRes' = NoResponse
    /\ godaddyIPAddr' = <<>>
    /\ writeCount' = 0
    /\ writeData' = <<>>
    /\ res' = NoResponse
    /\ err' = Nil
    /\ lastLog' = "none"
    /\ UNCHANGED providerVars /\ UNCHANGED cacheVars
    /\ UNCHANGED <<env, timer, domains, wgCount, issuedDone>>
    /\ UNCHANGED mainVars

\* getPublicIPAddress returns on answer; on an error loopFunc logs it and
\* returns.
ResolveReturnWith(answer) ==
    /\ Running /\ loopPc = "resolveWait"
    /\ LET r == getPublicIPAddress(answer) IN
        /\ resp' = answer
        /\ IF r.err
           THEN /\ resolveState' = "failed"
                /\ loopPc' = "select"
                /\ timer' = "armed"
                /\ UNCHANGED <<currIPAddr, idx>>
           ELSE /\ resolveState' = "ok"
                /\ currIPAddr' = r.ip
                /\ idx' = 1
                /\ loopPc' = "read"
                /\ UNCHANGED timer
    /\ UNCHANGED cacheVars /\ UNCHANGED <<env, domains, wgCount, cycle, readCount, issuedDone>>
    /\ UNCHANGED mainVars /\ UNCHANGED checkVars

ResolveReturn ==
    /\ \E answer \in EchoResponses : ResolveReturnWith(answer)
    /\ UNCHANGED providerVars

\* checkAndUpdate(ctx, domain, currIPAddr) is entered and the GET of
\* getDomainAtRecordIP is issued.
ReadCall ==
    /\ Running /\ loopPc = "read"
    /\ readCount' = readCount + 1
    /\ issuedDone' = ctxDone
    /\ httpRes' = NoResponse
    /\ godaddyIPAddr' = <<>>
    /\ writeCount' = 0
    /\ writeData' = <<>>
    /\ res' = NoResponse
    /\ err' = Nil
    /\ lastLog' = "none"
    /\ loopPc' = "readWait"
    /\ UNCHANGED providerVars /\ UNCHANGED cacheVars
    /\ UNCHANGED <<env, timer, domains, wgCount, cycle, idx, resp, resolveState,
                   currIPAddr>>
    /\ UNCHANGED mainVars

\* checkAndUpdate comparing against the value remembered from the last
\* successful read, when there is one, instead of the value just read.
ReadReturnRemembered(answer) ==
    /\ Running /\ loopPc = "readWait"
    /\ LET r == getDomainAtRecordIP(answer)
           known == IF readRecord # <<>> THEN readRecord ELSE r.val
       IN
        /\ httpRes' = answer
        /\ IF r.panic
           THEN /\ loopPc' = "crashed"
                /\ UNCHANGED <<godaddyIPAddr, err>>
           ELSE IF r.err.kind # "nil"
           THEN /\ err' = WrapReadError(r.err, domains[idx])
                /\ loopPc' = "log"
                /\ UNCHANGED godaddyIPAddr
           ELSE /\ godaddyIPAddr' = known
                /\ err' = Nil
                /\ loopPc' = IF needsUpdate(known, currIPAddr)
                             THEN "write" ELSE "log"
    /\ UNCHANGED cacheVars /\ UNCHANGED <<env, timer, domains, wgCount, cycle, idx, issuedDone, writeCount,
                   writeData, res, lastLog>>
    /\ UNCHANGED mainVars /\ UNCHANGED cycleVars

\* getDomainAtRecordIP returns on answer and checkAndUpdate compares.
ReadReturnWith(answer) ==
    /\ Running /\ loopPc = "readWait"
    /\ LET r == getDomainAtRecordIP(answer) IN
        /\ httpRes' = answer
        /\ IF r.panic
           THEN /\ loopPc' = "crashed"
                /\ UNCHANGED <<godaddyIPAddr, err>>
           ELSE IF r.err.kind # "nil"
           THEN /\ err' = WrapReadError(r.err, domains[idx])
                /\ loopPc' = "log"
                /\ UNCHANGED godaddyIPAddr
           ELSE /\ godaddyIPAddr' = r.val
                /\ err' = Nil
                /\ loopPc' = IF needsUpdate(r.val, currIPAddr)
                             THEN "write" ELSE "log"
    /\ UNCHANGED cacheVars /\ UNCHANGED <<env, timer, domains, wgCount, cycle, idx, issuedDone, writeCount,
                   writeData, res, lastLog>>
    /\ UNCHANGED mainVars /\ UNCHANGED cycleVars

ReadReturn ==
    /\ \E answer \in DoOutcomes(issuedDone, ctxDone) : ReadReturnWith(answer)
    /\ UNCHANGED providerVars

\* The PUT issued with the record's value as its data.
WriteCallStale ==
    /\ Running /\ loopPc = "write"
    /\ writeCount' = writeCount + 1
    /\ writeData' = godaddyIPAddr
    /\ issuedDone' = ctxDone
    /\ loopPc' = "writeWait"
    /\ UNCHANGED providerVars /\ UNCHANGED cacheVars
    /\ UNCHANGED <<env, timer, domains, wgCount, cycle, idx, httpRes, godaddyIPAddr, res,
                   err, lastLog>>
    /\ UNCHANGED mainVars /\ UNCHANGED cycleVars

\* setDomainAtRecord(ctx, domain, currentIpAddr): the PUT is issued.
WriteCall ==
    /\ Running /\ loopPc = "write"
    /\ writeCount' = writeCount + 1
    /\ writeData' = currIPAddr
    /\ issuedDone' = ctxDone
    /\ loopPc' = "writeWait"
    /\ UNCHANGED providerVars /\ UNCHANGED cacheVars
    /\ UNCHANGED <<env, timer, domains, wgCount, cycle, idx, httpRes, godaddyIPAddr, res,
                   err, lastLog>>
    /\ UNCHANGED mainVars /\ UNCHANGED cycleVars

\* setDomainAtRecord returns on answer, and checkAndUpdate with it.
WriteReturnWith(answer) ==
    /\ Running /\ loopPc = "writeWait"
    /\ res' = answer
    /\ err' = setDomainAtRecord(answer)
    /\ loopPc' = "log"
    /\ UNCHANGED cacheVars /\ UNCHANGED <<env, timer, domains, wgCount, cycle, idx, issuedDone, httpRes,
                   godaddyIPAddr, writeCount, writeData, lastLog>>
    /\ UNCHANGED mainVars /\ UNCHANGED cycleVars

WriteReturn ==
    /\ \E answer \in DoOutcomes(issuedDone, ctxDone) : WriteReturnWith(answer)
    /\ UNCHANGED providerVars

\* The loop logs the outcome for the domain and moves to the next one;
\* after the last one loopFunc returns to the select.
LogResult ==
    /\ Running /\ loopPc = "log"
    /\ lastLog' = IF err.kind # "nil" THEN "failed" ELSE "successful"
    /\ IF idx < Len(domains)
       THEN /\ idx' = idx + 1
            /\ loopPc' = "read"
            /\ UNCHANGED timer
       ELSE /\ loopPc' = "select"
            /\ timer' = "armed"
            /\ UNCHANGED idx
    /\ UNCHANGED providerVars /\ UNCHANGED cacheVars
    /\ UNCHANGED <<env, domains, wgCount, cycle, issuedDone, httpRes, godaddyIPAddr,
                   writeCount, writeData, res, err>>
    /\ UNCHANGED mainVars /\ UNCHANGED cycleVars

\* The interval has passed: the timer of the pending select fires.
TimerFire ==
    /\ Running /\ loopPc = "select"
    /\ timer = "armed"
    /\ timer' = "fired"
    /\ UNCHANGED providerVars /\ UNCHANGED cacheVars
    /\ UNCHANGED <<env, domains, loopPc, wgCount, cycle, idx, issuedDone>>
    /\ UNCHANGED mainVars /\ UNCHANGED cycleVars /\ UNCHANGED checkVars

\* The select with the timer armed again as the cycle begins, as a
\* time.Ticker would.
SelectTimerTicker ==
    /\ Running /\ loopPc = "select"
    /\ timer = "fired"
    /\ cycle < MaxCycles
    /\ loopPc' = "resolve"
    /\ timer' = "armed"
    /\ UNCHANGED providerVars /\ UNCHANGED cacheVars
    /\ UNCHANGED <<env, domains, wgCount, cycle, idx, issuedDone>>
    /\ UNCHANGED mainVars /\ UNCHANGED cycleVars /\ UNCHANGED checkVars

\* select: <-time.After(updateInterval)
SelectTimer ==
    /\ Running /\ loopPc = "select"
    /\ timer = "fired"
    /\ cycle < MaxCycles
    /\ loopPc' = "resolve"
    /\ timer' = "off"
    /\ UNCHANGED providerVars /\ UNCHANGED cacheVars
    /\ UNCHANGED <<env, domains, wgCount, cycle, idx, issuedDone>>
    /\ UNCHANGED mainVars /\ UNCHANGED cycleVars /\ UNCHANGED checkVars

\* The loop leaving on ctx.Done() between two domains as well.
SelectDoneEarly ==
    /\ Running /\ loopPc \in {"select", "read"}
    /\ ctxDone
    /\ loopPc' = "returned"
    /\ wgCount' = wgCount - 1
    /\ UNCHANGED providerVars /\ UNCHANGED cacheVars
    /\ UNCHANGED <<env, timer, domains, cycle, idx, issuedDone>>
    /\ UNCHANGED mainVars /\ UNCHANGED cycleVars /\ UNCHANGED checkVars

\* select: <-ctx.Done(); return, and the deferred wg.Done() runs.
SelectDone ==
    /\ Running /\ loopPc = "select"
    /\ ctxDone
    /\ loopPc' = "returned"
    /\ wgCount' = wgCount - 1
    /\ UNCHANGED providerVars /\ UNCHANGED cacheVars
    /\ UNCHANGED <<env, timer, domains, cycle, idx, issuedDone>>
    /\ UNCHANGED mainVars /\ UNCHANGED cycleVars /\ UNCHANGED checkVars

Next ==
    \/ initEnv
    \/ MainGo
    \/ Signal
    \/ Cancel
    \/ WgWait
    \/ WgAdd
    \/ ResolveCall
    \/ ResolveReturn
    \/ ReadCall
    \/ ReadReturn
    \/ WriteCall
    \/ WriteReturn
    \/ LogResult
    \/ TimerFire
    \/ SelectTimer
    \/ SelectDone

Spec == Init /\ [][Next]_vars

\* Every step but the arrival of the signal: the goroutines are scheduled,
\* every request returns (the client's timeout), the interval passes.
Progress ==
    \/ initEnv
    \/ MainGo
    \/ Cancel
    \/ WgWait
    \/ WgAdd
    \/ ResolveCall
    \/ ResolveReturn
    \/ ReadCall
    \/ ReadReturn
    \/ WriteCall
    \/ WriteReturn
    \/ LogResult
    \/ TimerFire
    \/ SelectTimer
    \/ SelectDone

FairSpec == Spec /\ WF_vars(Progress)

\* ------------------------------------------------- the services, followed
\* ProviderSpec follows the loop goroutine against a provider that holds a
\* record for every domain and an echo service that knows the public IP.
\* Until healthy, calls may fail and records may change out of band; once
\* healthy, every call succeeds and the records change only by the writes.

\* The public IPs whose echo body (the IP and a newline) fits MaxBodyLen.
PublicIPs == {ip \in DataValues : Len(ip) + 1 <= MaxBodyLen}

\* What the echo service sends with a non-200 status.
ErrorPage == <<"\n", "1">>

EchoOK(body) == [kind |-> "response", status |-> StatusOK, body |-> body,
                 bodyOk |-> TRUE]
Answer(status, body, bodyOk) ==
    [kind |-> "response", status |-> status, body |-> body, bodyOk |-> bodyOk]
ErrorObject == [json |-> "object", items |-> <<>>]

PEchoAnswers ==
    {EchoOK(publicIP \o <<"\n">>)}
    \cup (IF healthy THEN {}
          ELSE {[kind |-> "transport", status |-> 0, body |-> <<>>,
                 bodyOk |-> FALSE],
                Answer(404, ErrorPage, TRUE),
                Answer(StatusOK, publicIP, FALSE)})

PReadAnswers(d) ==
    {Answer(StatusOK, [json |-> "array", items |-> <<record[d]>>], TRUE)}
    \cup (IF healthy THEN {}
          ELSE {TransportError("transport"),
                Answer(404, ErrorObject, TRUE),
                Answer(StatusOK, [json |-> "array", items |-> <<>>], TRUE)})

PWriteAnswers ==
    {Answer(StatusOK, ErrorObject, TRUE)}
    \cup (IF healthy THEN {}
          ELSE {TransportError("transport"),
                Answer(404, ErrorObject, TRUE),
                Answer(404, ErrorObject, FALSE)})

PInit ==
    /\ env \in {e \in EnvValues : e.GD_API_KEY # "" /\ e.GD_API_SECRET # ""}
    /\ domains = Split(env.GD_DOMAINS, ",")
    /\ mainPc = "sigwait"
    /\ loopPc = "add"
    /\ timer = "off"
    /\ wgCount = 0
    /\ ctxDone = FALSE
    /\ cycle = 0
    /\ resp = NoEcho
    /\ resolveState = "pending"
    /\ currIPAddr = <<>>
    /\ idx = 0
    /\ readCount = 0
    /\ issuedDone = FALSE
    /\ httpRes = NoResponse
    /\ godaddyIPAddr = <<>>
    /\ writeCount = 0
    /\ writeData = <<>>
    /\ res = NoResponse
    /\ err = Nil
    /\ lastLog = "none"
    /\ publicIP \in PublicIPs
    /\ record \in [1..Len(domains) -> DataValues]
    /\ healthy = FALSE
    /\ readRecord = <<>>
    /\ oobChanged = {}
    /\ readOob = FALSE
    /\ lastIPAddr = <<>>
    /\ cachePc = "off"
    /\ retval = <<>>
    /\ okWrites = 0

PResolveReturn ==
    /\ \E answer \in PEchoAnswers : ResolveReturnWith(answer)
    /\ UNCHANGED providerVars

\* The read is answered from the provider's record of the domain.
PReadReturn ==
    /\ loopPc = "readWait"
    /\ \E answer \in PReadAnswers(idx) : ReadReturnWith(answer)
    /\ readRecord' = record[idx]
    /\ readOob' = (idx \in oobChanged)
    /\ oobChanged' = oobChanged \ {idx}
    /\ UNCHANGED <<record, publicIP, healthy>>

\* A write answered 200 has replaced the record; one that failed in the
\* transport may have reached the provider or not.
PWriteReturn ==
    /\ loopPc = "writeWait"
    /\ \E answer \in PWriteAnswers :
        /\ WriteReturnWith(answer)
        /\ \E applied \in (IF answer.kind = "response"
                           THEN {answer.status = StatusOK} ELSE BOOLEAN) :
            record' = IF applied THEN [record EXCEPT ![idx] = writeData]
                      ELSE record
    /\ UNCHANGED <<publicIP, healthy, readRecord, oobChanged, readOob>>

\* Somebody else changes a domain's record at the provider.
OutOfBand ==
    /\ Running /\ ~healthy
    /\ \E d \in 1..Len(domains), v \in DataValues :
        /\ record[d] # v
        /\ record' = [record EXCEPT ![d] = v]
        /\ oobChanged' = oobChanged \cup {d}
    /\ UNCHANGED <<publicIP, healthy, readRecord, readOob>>
    /\ UNCHANGED cacheVars /\ UNCHANGED <<env, timer, domains, loopPc, wgCount, cycle, idx, issuedDone>>
    /\ UNCHANGED mainVars /\ UNCHANGED cycleVars /\ UNCHANGED checkVars

\* From here on every call succeeds; at least one more tick will come.
BecomeHealthy ==
    /\ ~healthy /\ cycle < MaxCycles
    /\ healthy' = TRUE
    /\ UNCHANGED <<record, publicIP, readRecord, oobChanged, readOob>>
    /\ UNCHANGED cacheVars /\ UNCHANGED <<env, timer, domains, loopPc, wgCount, cycle, idx, issuedDone>>
    /\ UNCHANGED mainVars /\ UNCHANGED cycleVars /\ UNCHANGED checkVars

PLoop ==
    \/ WgAdd
    \/ ResolveCall
    \/ PResolveReturn
    \/ ReadCall
    \/ PReadReturn
    \/ WriteCall
    \/ PWriteReturn
    \/ LogResult
    \/ TimerFire
    \/ SelectTimer

PNext ==
    \/ PLoop
    \/ OutOfBand
    \/ BecomeHealthy

ProviderSpec == PInit /\ [][PNext]_vars

FairProviderSpec == ProviderSpec /\ WF_vars(PLoop)

\* ------------------------------------------- the caching implementation
\* CacheSpec follows updateRecords of the implementation that remembers
\* the record value in the global lastIPAddr: called once by main, then by
\* runUpdateLoop at every tick.

\* getDNSEntriesIP's answer when the domains' records are not all equal.
ZeroIP == <<"0", ".", "0", ".", "0", ".", "0">>

\* The positions of updateRecords, runUpdateLoop and main that CacheSpec
\* does not follow stay as they are.
uncachedVars == <<env, domains, timer, loopPc, wgCount, resp, readCount,
                  issuedDone>>

CacheInit ==
    /\ env \in {e \in EnvValues : e.GD_API_KEY # "" /\ e.GD_API_SECRET # ""}
    /\ domains = Split(env.GD_DOMAINS, ",")
    /\ mainPc = "start"
    /\ timer = "off"
    /\ loopPc = "idle"
    /\ wgCount = 0
    /\ ctxDone = FALSE
    /\ cycle = 0
    /\ resp = NoEcho
    /\ resolveState = "pending"
    /\ currIPAddr = <<>>
    /\ idx = 0
    /\ readCount = 0
    /\ issuedDone = FALSE
    /\ httpRes = NoResponse
    /\ godaddyIPAddr = <<>>
    /\ writeCount = 0
    /\ writeData = <<>>
    /\ res = NoResponse
    /\ err = Nil
    /\ lastLog = "none"
    /\ record = <<>>
    /\ publicIP = <<>>
    /\ healthy = FALSE
    /\ readRecord = <<>>
    /\ oobChanged = {}
    /\ readOob = FALSE
    /\ lastIPAddr = <<>>
    /\ cachePc = "return"
    /\ retval = <<>>
    /\ okWrites = 0

\* updateRecords is called: by main at the start, by the loop at a tick.
updateRecords ==
    /\ cachePc = "return" /\ cycle < MaxCycles
    /\ cycle' = cycle + 1
    /\ okWrites' = 0
    /\ resolveState' = "pending"
    /\ currIPAddr' = <<>>
    /\ IF lastIPAddr = <<>>
       THEN cachePc' = "getDNSEntriesIP" /\ idx' = 1
       ELSE cachePc' = "getPublicIPAddress" /\ idx' = 0
    /\ retval' = <<>>
    /\ UNCHANGED lastIPAddr
    /\ UNCHANGED uncachedVars /\ UNCHANGED mainVars /\ UNCHANGED checkVars
    /\ UNCHANGED providerVars

\* One turn of getDNSEntriesIP's range loop on the answer to its request,
\* and, when the function returns, the assignment to lastIPAddr.  The
\* status is not looked at; data[0] of an empty slice is a panic.
getDNSEntriesIP(answer) ==
    /\ cachePc = "getDNSEntriesIP"
    /\ LET data == Unmarshal(answer.body) IN
        IF answer.kind # "response" \/ ~answer.bodyOk \/ ~data.ok
        THEN /\ lastIPAddr' = <<>>
             /\ cachePc' = "return"
             /\ UNCHANGED <<retval, idx>>
        ELSE IF data.res = <<>>
        THEN /\ cachePc' = "crashed"
             /\ UNCHANGED <<lastIPAddr, retval, idx>>
        ELSE IF retval # data.res[1] /\ retval # <<>>
        THEN /\ lastIPAddr' = ZeroIP
             /\ cachePc' = "getPublicIPAddress"
             /\ UNCHANGED <<retval, idx>>
        ELSE /\ retval' = data.res[1]
             /\ IF idx < Len(domains)
                THEN idx' = idx + 1 /\ UNCHANGED <<lastIPAddr, cachePc>>
                ELSE /\ lastIPAddr' = data.res[1]
                     /\ cachePc' = "getPublicIPAddress"
                     /\ UNCHANGED idx
    /\ UNCHANGED <<cycle, okWrites, resolveState, currIPAddr>>
    /\ UNCHANGED uncachedVars /\ UNCHANGED mainVars /\ UNCHANGED checkVars
    /\ UNCHANGED providerVars

\* getPublicIPAddress(ctx) of this implementation returns the body as it
\* is, whatever the status; updateRecords compares it with lastIPAddr.
getPublicIPAddressCtx(answer) ==
    /\ cachePc = "getPublicIPAddress"
    /\ IF answer.kind # "response" \/ ~answer.bodyOk
       THEN /\ resolveState' = "failed"
            /\ cachePc' = "return"
            /\ UNCHANGED <<currIPAddr, idx>>
       ELSE /\ resolveState' = "ok"
            /\ currIPAddr' = answer.body
            /\ IF answer.body = lastIPAddr
               THEN cachePc' = "return" /\ UNCHANGED idx
               ELSE cachePc' = "updateDNSEntriesIP" /\ idx' = 1
    /\ UNCHANGED <<cycle, okWrites, lastIPAddr, retval>>
    /\ UNCHANGED uncachedVars /\ UNCHANGED mainVars /\ UNCHANGED checkVars
    /\ UNCHANGED providerVars

\* updateDNSEntriesIP going on after a write that was not answered 200.
updateDNSEntriesIPAnyStatus(answer) ==
    /\ cachePc = "updateDNSEntriesIP"
    /\ IF answer.kind # "response"
       THEN cachePc' = "return" /\ UNCHANGED <<idx, okWrites>>
       ELSE /\ okWrites' = IF answer.status = StatusOK
                           THEN okWrites + 1 ELSE okWrites
            /\ IF idx < Len(domains)
               THEN idx' = idx + 1 /\ UNCHANGED cachePc
               ELSE cachePc' = "commit" /\ UNCHANGED idx
    /\ UNCHANGED <<cycle, resolveState, currIPAddr, lastIPAddr, retval>>
    /\ UNCHANGED uncachedVars /\ UNCHANGED mainVars /\ UNCHANGED checkVars
    /\ UNCHANGED providerVars

\* One turn of updateDNSEntriesIP's range loop on the answer to its PUT.
updateDNSEntriesIP(answer) ==
    /\ cachePc = "updateDNSEntriesIP"
    /\ IF answer.kind # "response" \/ answer.status # StatusOK
       THEN cachePc' = "return" /\ UNCHANGED <<idx, okWrites>>
       ELSE /\ okWrites' = okWrites + 1
            /\ IF idx < Len(domains)
               THEN idx' = idx + 1 /\ UNCHANGED cachePc
               ELSE cachePc' = "commit" /\ UNCHANGED idx
    /\ UNCHANGED <<cycle, resolveState, currIPAddr, lastIPAddr, retval>>
    /\ UNCHANGED uncachedVars /\ UNCHANGED mainVars /\ UNCHANGED checkVars
    /\ UNCHANGED providerVars

\* updateRecords, after updateDNSEntriesIP returned nil.
commitLastIPAddr ==
    /\ cachePc = "commit"
    /\ lastIPAddr' = currIPAddr
    /\ cachePc' = "return"
    /\ UNCHANGED <<cycle, okWrites, resolveState, currIPAddr, idx, retval>>
    /\ UNCHANGED uncachedVars /\ UNCHANGED mainVars /\ UNCHANGED checkVars
    /\ UNCHANGED providerVars

CacheRead ==
    \E answer \in {TransportError("transport")} \cup ProviderResponses :
        getDNSEntriesIP(answer)
CacheResolve == \E answer \in EchoResponses : getPublicIPAddressCtx(answer)
CacheWrite ==
    \E answer \in {TransportError("transport")} \cup ProviderResponses :
        updateDNSEntriesIP(answer)

CacheNext ==
    \/ updateRecords
    \/ CacheRead
    \/ CacheResolve
    \/ CacheWrite
    \/ commitLastIPAddr

CacheSpec == CacheInit /\ [][CacheNext]_vars

\* ------------------------------------------------------------------ claims
\* The read of the current domain has returned a record value.
ReadOk ==
    /\ httpRes.kind = "response"
    /\ getDomainAtRecordIP(httpRes).err.kind = "nil"
    /\ ~getDomainAtRecordIP(httpRes).panic

\* checkAndUpdate has returned for the current domain.
CheckReturned == loopPc = "log" \/ lastLog # "none"

\* The cycle's call of getPublicIPAddress has failed.
ResolveFailed ==
    \/ resp.kind = "transport"
    \/ resp.kind = "response" /\ ~resp.bodyOk

\* loopFunc has returned from a cycle in which the public IP was resolved.
CycleOver ==
    /\ resolveState = "ok"
    /\ loopPc \in {"select", "resolve", "returned", "crashed"}

\* A request of the current domain ended in a transport error.
WriteTransportFailed == res.kind \in {"transport", "canceled"}
WriteNonOK == res.kind = "response" /\ res.status # StatusOK

\* C1: a domain whose read returned a value different from the public IP
\* resolved in the cycle gets exactly one write call in that cycle, with
\* the resolved public IP as its data; no domain gets more than one.
C1_OneWriteOfPublicIP ==
    /\ readCount <= idx /\ idx <= Len(domains)
    /\ writeCount <= 1
    /\ writeCount = 1 => writeData = currIPAddr
    /\ (CheckReturned /\ ReadOk /\ godaddyIPAddr # currIPAddr) => writeCount = 1

C1_Witness ==
    /\ loopPc = "log" /\ ReadOk /\ godaddyIPAddr # currIPAddr
    /\ writeCount = 1 /\ writeData = currIPAddr /\ res.kind = "response"
    /\ cycle = 2 /\ idx = 2

\* C2: a domain whose read returned the public IP resolved in the cycle
\* gets no write call; needsUpdate(A, B) is exactly A # B.
C2_NoWriteWhenEqual ==
    /\ \A A, B \in SeqsUpTo(Chars, MaxBodyLen) \cup DataValues :
            needsUpdate(A, B) <=> A # B
    /\ (ReadOk /\ godaddyIPAddr = currIPAddr) => writeCount = 0 /\ loopPc # "write"

C2_Witness ==
    /\ lastLog = "successful" /\ ReadOk /\ godaddyIPAddr = currIPAddr
    /\ resp.body # currIPAddr /\ writeCount = 0

\* C3: when the resolution of the public IP fails, no record is read or
\* written in that cycle and the loop goes on to the select for the next tick.
C3_ResolveFailureSkipsCycle ==
    ResolveFailed =>
        /\ resolveState = "failed"
        /\ readCount = 0 /\ writeCount = 0
        /\ httpRes = NoResponse /\ res = NoResponse
        /\ loopPc \in {"select", "resolve", "returned"}
        /\ loopPc = "returned" => ctxDone

C3_Witness ==
    /\ ResolveFailed /\ loopPc = "resolve" /\ cycle = 1 /\ readCount = 0

\* C4 (as claimed): after a cycle with a resolved public IP every configured
\* domain was read, and every failed read or write was logged as a failure.
C4_Claimed ==
    /\ CycleOver => readCount = Len(domains)
    /\ (lastLog # "none" /\ (~ReadOk \/ WriteTransportFailed \/ WriteNonOK))
            => lastLog = "failed"

\* C5 (as claimed): a write answered with a non-200 status returns an error
\* holding the response body text and is not logged as successful.
C5_Claimed ==
    WriteNonOK =>
        /\ err.kind # "nil" /\ err.body = res.body
        /\ lastLog # "successful"

\* C5 (amended): a write answered with a non-200 status returns an error
\* with the status code, and with the body text when the body could be
\* read; the domain is not logged as successful.
C5_NonOKWriteIsError ==
    WriteNonOK =>
        /\ err.kind # "nil" /\ err.code = res.status
        /\ res.bodyOk => err.body = res.body
        /\ lastLog # "successful"

C5_Witness ==
    /\ WriteNonOK /\ res.bodyOk /\ err.body = res.body /\ lastLog = "failed"

\* C6 (as claimed): a write whose request fails in the transport returns
\* an error and the domain is never logged as successful.
C6_Claimed ==
    WriteTransportFailed => err.kind # "nil" /\ lastLog # "successful"

\* C7 (as claimed): no read or write is aborted by the cancellation, and
\* the loop returns only after the cycle.
C7_Claimed ==
    /\ httpRes.kind # "canceled" /\ res.kind # "canceled"
    /\ loopPc = "returned" => ctxDone

\* The cycle in flight has run to its end.
CycleComplete ==
    \/ resolveState = "failed"
    \/ resolveState = "ok" /\ idx = Len(domains) /\ lastLog # "none"
            /\ readCount = Len(domains)

\* C7 (amended): a read or write is aborted only by the cancellation, a
\* request issued after the cancellation gets no provider response, and
\* the loop is not interrupted: it returns only from the select, after the
\* cycle in flight has gone through every domain.
C7_LoopExitsAfterCycle ==
    /\ (httpRes.kind = "canceled" \/ res.kind = "canceled") => ctxDone
    /\ (issuedDone /\ writeCount = 0 /\ httpRes.kind # "none")
            => httpRes.kind = "canceled"
    /\ (issuedDone /\ writeCount = 1 /\ res.kind # "none")
            => res.kind = "canceled"
    /\ loopPc = "returned" => ctxDone /\ CycleComplete

C7_Witness ==
    /\ loopPc = "returned" /\ Len(domains) = 2 /\ readCount = 2
    /\ httpRes.kind = "canceled"

\* C8 (as claimed): main passes wg.Wait() and the process ends only after
\* the update-loop goroutine has returned.
C8_Claimed == mainPc = "exited" => loopPc = "returned"

\* C9 (as claimed): no answer of the provider to a record read crashes the
\* process.
C9_Claimed == loopPc # "crashed"

\* C10 (as claimed): a non-success answer of the IP-echo service makes the
\* resolution fail: its body is not the public IP and no domain is read.
C10_Claimed ==
    (resp.kind = "response" /\ resp.status # StatusOK) =>
        /\ resolveState = "failed"
        /\ readCount = 0 /\ writeCount = 0

\* C11 (as claimed): with GD_DOMAINS unset or empty the process does not
\* start: the loop is never entered and no service is called.
C11_Claimed ==
    env.GD_DOMAINS = <<>> =>
        /\ mainPc \in {"init", "fatal"}
        /\ loopPc = "idle" /\ cycle = 0 /\ readCount = 0

\* A cycle is in progress: loopFunc has been entered and has not returned.
InCycle ==
    loopPc \in {"resolveWait", "read", "readWait", "write", "writeWait", "log"}

\* C12: a timer is armed only after the first resolution of the public IP
\* has returned, and the first timer only after the first cycle is complete.
C12_FirstCycleBeforeTimer ==
    timer # "off" =>
        /\ cycle >= 1 /\ resp.kind # "none" /\ resolveState # "pending"
        /\ cycle = 1 => CycleComplete

C12_Witness ==
    /\ timer = "armed" /\ cycle = 1 /\ loopPc = "select"
    /\ resolveState = "ok" /\ readCount = Len(domains)

\* C13: no timer is pending while a cycle is in progress: a timer is armed
\* only by a loop that has completed its cycle and is in the select.
C13_NoOverlap ==
    /\ InCycle => timer = "off"
    /\ timer # "off" => loopPc \in {"select", "returned"}
    /\ (timer # "off" /\ cycle >= 2) => CycleComplete

C13_Witness ==
    /\ cycle = 2 /\ loopPc = "readWait" /\ idx = Len(domains) /\ timer = "off"

\* C14: within a cycle the public IP is the one answer of the resolver
\* received in that cycle: every comparison and every write uses it.
C14_OneResolutionPerCycle ==
    /\ loopPc \in {"read", "readWait", "write", "writeWait", "log"} =>
            /\ resolveState = "ok" /\ resp.kind = "response"
            /\ currIPAddr = TrimRight(resp.body, "\n")
    /\ loopPc \in {"write", "writeWait"} =>
            godaddyIPAddr # TrimRight(resp.body, "\n")
    /\ writeCount = 1 => writeData = TrimRight(resp.body, "\n")
    /\ resolveState = "pending" => readCount = 0 /\ writeCount = 0

C14_Witness ==
    /\ loopPc = "log" /\ idx = 2 /\ writeCount = 1
    /\ writeData = TrimRight(resp.body, "\n") /\ resp.body # writeData

\* C15 (as claimed): once the context is cancelled no new cycle begins.
C15_Claimed == [][ctxDone => cycle' = cycle]_vars

\* C16 (as claimed): after the signal the loop returns and main passes
\* wg.Wait() and exits.
C16_Claimed == (mainPc = "cancel") ~> (mainPc = "exited" /\ loopPc = "returned")

Converged == \A d \in 1..Len(domains) : record[d] = publicIP

\* C19 (as claimed): once every call succeeds, the records come to equal
\* the public IP and from then on no write is issued.
C19_Claimed ==
    healthy ~> [](Converged /\ loopPc \notin {"write", "writeWait"})

\* C18: in the caching implementation a known lastIPAddr changes only in
\* the step after the write for every configured domain was answered 200
\* in this call of updateRecords, and it becomes the public IP resolved in
\* this call; a failed resolution, a failed write and an equal comparison
\* leave it as it was.
C18_LastIPAddrOnlyAfterWrites ==
    [][ /\ (lastIPAddr # <<>> /\ lastIPAddr' # lastIPAddr) =>
            /\ okWrites = Len(domains)
            /\ resolveState = "ok"
            /\ lastIPAddr' = currIPAddr
        /\ (lastIPAddr # <<>> /\ cachePc' = "return" /\ cachePc # "return"
            /\ (resolveState' = "failed" \/ okWrites' < Len(domains))) =>
            lastIPAddr' = lastIPAddr ]_vars

C18_Witness ==
    /\ cycle = 2 /\ cachePc = "return" /\ Len(domains) = 2
    /\ okWrites = 2 /\ resolveState = "ok"
    /\ lastIPAddr = currIPAddr /\ lastIPAddr = <<"1", "\n">>

====
